---- MODULE Spec2Model ----
(***************************************************************************)
(* AutoRota: the constraint-model builder of "Rota Generator.py" and the   *)
(* schedules its CP model admits.                                          *)
(*                                                                         *)
(* The program reads the rules, calls one constraint installer after the   *)
(* other on a CpModel over the variables x[w, d, e] and hands the model to *)
(* CP-SAT.  The model below keeps the rules in cfg, the installers that    *)
(* have run in model, and lets the solver fix the variables x[w, d, e] one *)
(* at a time in index order (week, day, employee), keeping a value only    *)
(* when every installed constraint that it decides is satisfied.  A state  *)
(* holds the row of the current day and, for each installed constraint     *)
(* that reads other days, the indicator variables of the days it reads.    *)
(* Every schedule that satisfies the CP model is a run of the solver, and  *)
(* every completed run is such a schedule.                                 *)
(***************************************************************************)
EXTENDS Integers, Sequences, FiniteSets, TLC

VARIABLES
    pc,         \* where main() is: "build", "search", "done", "failed"
    cfg,        \* the rules, the carry-over and the pipeline of this run
    model,      \* the installers that have added their constraints
    status,     \* the solver's status
    w, d,       \* the day the solver is at
    x,          \* x[w, d, 1 .. Len(x)]: the row of that day so far
    prev,       \* the row of the day before (late-to-early indicators)
    is_work,    \* per employee, the working indicators of the latest days
    week_work,  \* per employee, sum(w_bools) of the week so far
    slack,      \* per employee, the slack of the week, once it is decided
    sun_off,    \* per employee, the indicator sun_off of the week
    objective,  \* the terms of the objective decided so far
    weekends,   \* per employee, x on the first and the last day of each week
    consec,     \* per employee, consec[(e, t)] of the latest day
    last_block, \* per employee, the week that the next run will read back
    six_in_a_row, \* per employee, six_in_a_row[i, e] of the blocks decided
    output      \* what main() has written and printed

acc == <<prev, is_work, week_work, slack, sun_off, objective, weekends, consec,
         last_block, six_in_a_row>>

vars == <<pc, cfg, model, status, w, d, x, acc, output>>

(***************************************************************************)
(* Program constants and the bounds of the model.                          *)
(***************************************************************************)
days_per_week == 7

max_consecutive == 6

SLACK_WEIGHT == 10000

weekend_bonus_full == 5000

weekend_bonus_partial == 2500

pref_weight == 2000

BIG_PENALTY == 1000

\* num_weeks of the Rota Creation Script.
creation_num_weeks == 4

\* main() generates 4 weeks; the runs of the model generate at most MaxWeeks.
MaxWeeks == 2

\* The horizon that main() passes to every installer.
num_weeks == cfg.num_weeks

\* Largest carried-in count of trailing working days that the scenarios draw.
MaxPrev == 2

shift_to_int == ("E" :> 0) @@ ("M" :> 1) @@ ("L" :> 2) @@ ("D/O" :> 3) @@ ("H" :> 4)

day_name_to_index ==
    ("Sunday" :> 0) @@ ("Monday" :> 1) @@ ("Tuesday" :> 2) @@ ("Wednesday" :> 3)
        @@ ("Thursday" :> 4) @@ ("Friday" :> 5) @@ ("Saturday" :> 6)

\* A missing key or an empty string of the temporary rules.
NoDate == -1

\* The value of slack[e] while the week of e is not complete.
NoSlack == -1

EmptyMap == [n \in {} |-> 0]

Get(map, key, default) == IF key \in DOMAIN map THEN map[key] ELSE default

total_days == num_weeks * days_per_week

\* initialize_model: x[w, d, e] = NewIntVar(0, 4) in the first and the third
\* script; NewIntVar(0, 3) in Rota Creation Script Refactor.py and in the
\* Rota Creation Script, which have no Holiday.
initialize_model == IF cfg.script \in {"refactor", "creation"} THEN 0 .. 3 ELSE 0 .. 4

\* work[w, d, e] of Rota Creation Script Refactor.py and of the Rota Creation
\* Script: x != D/O if the indicator holds, x == D/O if it does not.
work(v) == v # shift_to_int["D/O"]

\* is_work: x <= L if the indicator holds, x > L if it does not.
Working(v) == v <= shift_to_int["L"]

Count(row, v) == Cardinality({i \in DOMAIN row : row[i] = v})

RECURSIVE SumFlags(_)
SumFlags(s) == IF s = << >> THEN 0 ELSE (IF Head(s) THEN 1 ELSE 0) + SumFlags(Tail(s))

\* The last k elements of s (all of s when it is shorter).
LastOf(s, k) == IF Len(s) <= k THEN s ELSE SubSeq(s, Len(s) - k + 1, Len(s))

N == Len(cfg.employees)

Emp(e) == cfg.employees[e]

\* main(): the installers in the order in which they are called
\* (those of the third script stand where the third script calls them).
MainOrder ==
    << "day0_pin", "refactor_add_daily_coverage_constraints",
       "add_consecutive_day_constraints",
       "refactor_add_allowed_shifts", "add_week_boundary_constraints",
       "creation_script_objective",
       "add_allowed_shifts", "add_daily_coverage_constraints",
       "add_stepup_priority", "add_reserve_priority",
       "add_employee_specific_constraints", "add_temporary_constraints",
       "apply_alternating_offset", "enforce_strict_alternating_weekends",
       "enforce_strict_alternating_weekends_offsets",
       "add_no_late_to_early_constraint",
       "add_consecutive_day_limit_with_offset", "add_objective",
       "add_consecutive_working_constraints" >>

(***************************************************************************)
(* The installers: what each adds to the CP model, as the condition on the *)
(* value v of x[ww, dd, e], on the row of the day so far, or on the        *)
(* indicators it creates.                                                  *)
(***************************************************************************)

\* Mutant: the Late coverage sum is not installed.
coverage_early_only(row, dd, complete) ==
    /\ \A i \in DOMAIN row :
          (dd = 0 \/ dd = days_per_week - 1) => row[i] # shift_to_int["M"]
    /\ complete => Count(row, shift_to_int["E"]) >= 1
    /\ Cardinality({i \in DOMAIN row : Working(row[i])}) <= 4

\* add_daily_coverage_constraints, for one day: row holds x[w, dd, 1 .. k];
\* the two lower bounds are decided when the row is complete.
add_daily_coverage_constraints(row, dd, complete) ==
    /\ \A i \in DOMAIN row :
          (dd = 0 \/ dd = days_per_week - 1) => row[i] # shift_to_int["M"]
    /\ complete => Count(row, shift_to_int["E"]) >= 1
    /\ complete => Count(row, shift_to_int["L"]) >= 1
    /\ Cardinality({i \in DOMAIN row : Working(row[i])}) <= 4

\* add_daily_coverage_constraints of Rota Creation Script Refactor.py: the two
\* lower bounds alone.
refactor_add_daily_coverage_constraints(row, complete) ==
    /\ complete => Count(row, shift_to_int["E"]) >= 1
    /\ complete => Count(row, shift_to_int["L"]) >= 1

\* Mutant: the loop over the week boundaries is missing.
no_late_to_early_in_week_only(ww, dd, before, v) ==
    (\E d0 \in 0 .. days_per_week - 2 : dd = d0 + 1)
        => (before = shift_to_int["L"] => v # shift_to_int["E"])

\* add_no_late_to_early_constraint: before is the value of the employee on
\* the day before (ww, dd).
add_no_late_to_early_constraint(ww, dd, before, v) ==
    /\ (\E d0 \in 0 .. days_per_week - 2 : dd = d0 + 1)
          => (before = shift_to_int["L"] => v # shift_to_int["E"])
    /\ (\E w0 \in 0 .. num_weeks - 2 : ww = w0 + 1 /\ dd = 0)
          => (before = shift_to_int["L"] => v # shift_to_int["E"])

\* Mutant: the step-up sum is only bounded by its domain.
stepup_priority_unlinked(row) ==
    \A shift \in {"E", "M", "L"} :
        LET nonstep_bools == {i \in DOMAIN row : Emp(i) \notin cfg.stepup
                                                 /\ row[i] = shift_to_int[shift]}
            step_bools == {i \in DOMAIN row : Emp(i) \in cfg.stepup
                                              /\ row[i] = shift_to_int[shift]}
        IN  \E sum_nonstep \in 0 .. 1, sum_step \in 0 .. 1 :
                /\ sum_nonstep = Cardinality(nonstep_bools)
                /\ sum_step = Cardinality(step_bools)

\* add_stepup_priority (first script): sum_nonstep and sum_step are
\* NewIntVar(0, 1).
add_stepup_priority(row) ==
    \A shift \in {"E", "M", "L"} :
        LET nonstep_bools == {i \in DOMAIN row : Emp(i) \notin cfg.stepup
                                                 /\ row[i] = shift_to_int[shift]}
            step_bools == {i \in DOMAIN row : Emp(i) \in cfg.stepup
                                              /\ row[i] = shift_to_int[shift]}
        IN  \E sum_nonstep \in 0 .. 1, sum_step \in 0 .. 1 :
                /\ sum_nonstep = Cardinality(nonstep_bools)
                /\ sum_step = Cardinality(step_bools)
                /\ sum_step <= 1 - sum_nonstep

\* add_reserve_priority (third script): the sums range over 0 .. len(bools).
add_reserve_priority(row) ==
    \A shift \in {"E", "M", "L"} :
        LET non_reserve_bools == {i \in DOMAIN row : Emp(i) \notin cfg.stepup
                                                     /\ row[i] = shift_to_int[shift]}
            reserve_bools == {i \in DOMAIN row : Emp(i) \in cfg.stepup
                                                 /\ row[i] = shift_to_int[shift]}
            non_reserve_sum == Cardinality(non_reserve_bools)
            reserve_sum == Cardinality(reserve_bools)
        IN  \E non_reserve_present \in BOOLEAN :
                /\ non_reserve_present => non_reserve_sum >= 1
                /\ ~non_reserve_present => non_reserve_sum = 0
                /\ non_reserve_present => reserve_sum = 0

\* Mutant: the Early list is looked up under the key of the Late list.
allowed_shifts_wrong_key(emp, v) ==
    LET allowed ==
            (IF emp \in cfg.will_late THEN {shift_to_int["L"]} ELSE {})
            \cup (IF emp \in cfg.will_middle THEN {shift_to_int["M"]} ELSE {})
            \cup (IF emp \in cfg.will_late THEN {shift_to_int["E"]} ELSE {})
    IN  \A shift \in {"E", "M", "L"} :
            shift_to_int[shift] \notin allowed => v # shift_to_int[shift]

\* add_allowed_shifts.
add_allowed_shifts(emp, v) ==
    LET allowed ==
            (IF emp \in cfg.will_late THEN {shift_to_int["L"]} ELSE {})
            \cup (IF emp \in cfg.will_middle THEN {shift_to_int["M"]} ELSE {})
            \cup (IF emp \in cfg.will_early THEN {shift_to_int["E"]} ELSE {})
    IN  \A shift \in {"E", "M", "L"} :
            shift_to_int[shift] \notin allowed => v # shift_to_int[shift]

\* add_allowed_shifts of Rota Creation Script Refactor.py: the constraints
\* are added only for an employee whose allowed_set is not empty.
refactor_add_allowed_shifts(emp, v) ==
    LET allowed_set ==
            (IF emp \in cfg.will_late THEN {shift_to_int["L"]} ELSE {})
            \cup (IF emp \in cfg.will_middle THEN {shift_to_int["M"]} ELSE {})
            \cup (IF emp \in cfg.will_early THEN {shift_to_int["E"]} ELSE {})
    IN  allowed_set # {} =>
            \A shift \in {"E", "M", "L"} :
                shift_to_int[shift] \notin allowed_set
                    => (work(v) => v # shift_to_int[shift])

\* add_week_boundary_constraints of Rota Creation Script Refactor.py and
\* section 5 of the Rota Creation Script: before is the value of the employee
\* on the day before (ww, dd); was_late holds exactly when x[w0, 6, e] is Late.
add_week_boundary_constraints(ww, dd, before, v) ==
    (\E w0 \in 0 .. num_weeks - 2 : ww = w0 + 1 /\ dd = 0)
        => LET was_late == before = shift_to_int["L"]
           IN  was_late => v # shift_to_int["E"]

\* Mutant: the AddBoolOr of six_in_a_row[i, e].Not() is missing.
six_in_a_row_one_way(week, block, six) ==
    /\ Len(week) = 7 => SumFlags(week) <= 6
    /\ Len(block) = 6 => (six => \A k \in DOMAIN block : block[k])

\* Section 3 of the Rota Creation Script (add_consecutive_day_constraints of
\* Rota Creation Script Refactor.py): week holds global_work of the 7 days
\* and block of the 6 days that end with the day decided, six is
\* six_in_a_row[i, e] of that block.
add_consecutive_day_constraints(week, block, six) ==
    /\ Len(week) = 7 => SumFlags(week) <= 6
    /\ Len(block) = 6 =>
          /\ six => \A k \in DOMAIN block : block[k]
          /\ ~six => \E k \in DOMAIN block : ~block[k]

\* Section 6 of the Rota Creation Script: the terms of
\* sum(obj_expr) - sum(penalties) that x[w, d, e] = v decides; six holds the
\* six_in_a_row variable of the block that ends with that day, if there is
\* one.
creation_script_objective(emp, v, six) ==
    LET prefs ==
            IF emp = "Jennifer" THEN (IF v = shift_to_int["L"] THEN 1 ELSE 0)
            ELSE IF emp = "Stacey" THEN (IF v = shift_to_int["M"] THEN 1 ELSE 0)
            ELSE 0
        penalties == SumFlags(six) * BIG_PENALTY
    IN  prefs - penalties

\* Mutant: the slack is subtracted.
working_days_slack_subtracted(emp, sum_w_bools, s) ==
    emp \in DOMAIN cfg.working_days =>
        /\ s \in 0 .. days_per_week
        /\ sum_w_bools - s = cfg.working_days[emp]

\* add_employee_specific_constraints, "Working Days": the equation of one
\* week of emp, sum(w_bools) + slack == required_days, slack in 0 .. 7.
add_employee_specific_constraints(emp, sum_w_bools, s) ==
    emp \in DOMAIN cfg.working_days =>
        /\ s \in 0 .. days_per_week
        /\ sum_w_bools + s = cfg.working_days[emp]

\* add_employee_specific_constraints, "Days won't work".
days_wont_work(emp, dd, v) ==
    (emp \in DOMAIN cfg.wont_work /\ dd = day_name_to_index[cfg.wont_work[emp]])
        => v = shift_to_int["D/O"]

\* The calendar date of x[ww, dd, .], in days.
current_date(ww, dd) == cfg.start + (ww * days_per_week + dd)

\* Mutant: the holiday is pinned whether or not it is active.
temporary_holiday_always(emp, ww, dd, v) ==
    emp \in DOMAIN cfg.temp =>
        LET emp_rules == cfg.temp[emp]
            holiday == emp_rules.holiday
        IN  /\ \A day \in emp_rules.days_off :
                  (day # NoDate /\ current_date(ww, dd) = day) => v = shift_to_int["D/O"]
            /\ (emp_rules.Early # NoDate /\ current_date(ww, dd) = emp_rules.Early)
                  => v = shift_to_int["E"]
            /\ (emp_rules.Middle # NoDate /\ current_date(ww, dd) = emp_rules.Middle)
                  => v = shift_to_int["M"]
            /\ (emp_rules.Late # NoDate /\ current_date(ww, dd) = emp_rules.Late)
                  => v = shift_to_int["L"]
            /\ (holiday.start # NoDate /\ holiday.end # NoDate)
                  => ((holiday.start <= current_date(ww, dd)
                       /\ current_date(ww, dd) <= holiday.end)
                          => v = shift_to_int["H"])

\* add_temporary_constraints.
add_temporary_constraints(emp, ww, dd, v) ==
    emp \in DOMAIN cfg.temp =>
        LET emp_rules == cfg.temp[emp]
            holiday == emp_rules.holiday
        IN  /\ \A day \in emp_rules.days_off :
                  (day # NoDate /\ current_date(ww, dd) = day) => v = shift_to_int["D/O"]
            /\ (emp_rules.Early # NoDate /\ current_date(ww, dd) = emp_rules.Early)
                  => v = shift_to_int["E"]
            /\ (emp_rules.Middle # NoDate /\ current_date(ww, dd) = emp_rules.Middle)
                  => v = shift_to_int["M"]
            /\ (emp_rules.Late # NoDate /\ current_date(ww, dd) = emp_rules.Late)
                  => v = shift_to_int["L"]
            /\ holiday.active =>
                  ((holiday.start # NoDate /\ holiday.end # NoDate)
                      => ((holiday.start <= current_date(ww, dd)
                           /\ current_date(ww, dd) <= holiday.end)
                              => v = shift_to_int["H"]))

\* enforce_strict_alternating_weekends (first script).
enforce_strict_alternating_weekends(emp, ww, dd, v) ==
    emp \in cfg.alt =>
        \A w0 \in 0 .. num_weeks - 2 :
            ((ww = w0 /\ dd = days_per_week - 1) \/ (ww = w0 + 1 /\ dd = 0))
                => IF w0 % 2 = 0 THEN v = shift_to_int["D/O"]
                                 ELSE v # shift_to_int["D/O"]

\* apply_alternating_offset.
apply_alternating_offset(emp, ww, dd, v) ==
    emp \in cfg.alt =>
        LET last_state == Get(cfg.alt_last, emp, "None")
            first_pair == (ww = 0 /\ dd = days_per_week - 1)
                          \/ (num_weeks > 1 /\ ww = 1 /\ dd = 0)
        IN  /\ (last_state = "off" /\ first_pair) => v # shift_to_int["D/O"]
            /\ (last_state = "on" /\ first_pair) => v = shift_to_int["D/O"]

\* add_consecutive_day_limit_with_offset: seg holds the working indicators
\* of the days of one window that are decided, the last of them day t.
add_consecutive_day_limit_with_offset(emp, t, seg) ==
    LET c == Get(cfg.prev_consecutive, emp, 0)
    IN  (\E start_day \in 0 .. (total_days - (max_consecutive - 1)) - 1 :
            t \in start_day .. start_day + max_consecutive - 1)
          => SumFlags(seg) + c <= max_consecutive

\* previous_state.get(emp, {}): the carry-over of an employee that the last
\* rota does not name.
NoState == [consecutive |-> 0, weekend_off |-> FALSE]

\* weekend_offsets[emp] (third script).
weekend_offsets(emp) ==
    IF Get(cfg.previous_state, emp, NoState).weekend_off THEN 1 ELSE 0

\* Mutant: the carried-over weekend-off flag is not read.
strict_alternating_without_offsets(emp, ww, dd, v) ==
    emp \in cfg.alt =>
        \A w0 \in 0 .. num_weeks - 2 :
            ((ww = w0 /\ dd = days_per_week - 1) \/ (ww = w0 + 1 /\ dd = 0))
                => IF w0 % 2 = 0 THEN v = shift_to_int["D/O"]
                                 ELSE v # shift_to_int["D/O"]

\* enforce_strict_alternating_weekends (third script, with weekend_offsets).
enforce_strict_alternating_weekends_offsets(emp, ww, dd, v) ==
    emp \in cfg.alt =>
        LET offset == weekend_offsets(emp)
        IN  \A w0 \in 0 .. num_weeks - 2 :
                ((ww = w0 /\ dd = days_per_week - 1) \/ (ww = w0 + 1 /\ dd = 0))
                    => IF (w0 + offset) % 2 = 0 THEN v = shift_to_int["D/O"]
                                                ELSE v # shift_to_int["D/O"]

\* The largest value of consec[(e, t)] (third script).
consec_max == 6

\* Mutant: the carried-in count does not start the counter of day 0.
consecutive_working_without_init(emp, t, before, v, after) ==
    /\ after \in 0 .. consec_max
    /\ Working(v) => after = (IF t = 0 THEN 0 ELSE before) + 1
    /\ ~Working(v) => after = 0

\* add_consecutive_working_constraints (third script): before is
\* consec[(e, t - 1)] and after is consec[(e, t)].
add_consecutive_working_constraints(emp, t, before, v, after) ==
    LET init == Get(cfg.previous_state, emp, NoState).consecutive
    IN  /\ after \in 0 .. consec_max
        /\ Working(v) => after = (IF t = 0 THEN init ELSE before) + 1
        /\ ~Working(v) => after = 0
        /\ after <= 6

\* The third script pins day 0 of an employee who comes in with six or more
\* working days.
day0_pin(emp, ww, dd, v) ==
    (Get(cfg.previous_state, emp, NoState).consecutive >= 6 /\ ww = 0 /\ dd = 0)
        => v = shift_to_int["D/O"]

\* Mutant: the slacks are left out of the objective.
objective_without_slack_penalty(emp, dd, v, sunoff, s) ==
    LET sat_off == v = shift_to_int["D/O"]
        weekend ==
            IF emp \in cfg.alt \/ dd # days_per_week - 1 THEN 0
            ELSE (IF sat_off /\ sunoff THEN weekend_bonus_full ELSE 0)
                 + (IF sat_off # sunoff THEN weekend_bonus_partial ELSE 0)
        pref ==
            (IF emp \in cfg.pref_late /\ v = shift_to_int["L"] THEN pref_weight ELSE 0)
            + (IF emp \in cfg.pref_early /\ v = shift_to_int["E"] THEN pref_weight ELSE 0)
            + (IF emp \in cfg.pref_middle /\ v = shift_to_int["M"] THEN pref_weight ELSE 0)
    IN  weekend + pref

\* add_objective: the terms that x[ww, dd, e] = v decides; sunoff is the
\* indicator sun_off of the week and s the slack of the week (NoSlack when
\* emp has none).
add_objective(emp, dd, v, sunoff, s) ==
    LET sat_off == v = shift_to_int["D/O"]
        weekend ==
            IF emp \in cfg.alt \/ dd # days_per_week - 1 THEN 0
            ELSE (IF sat_off /\ sunoff THEN weekend_bonus_full ELSE 0)
                 + (IF sat_off # sunoff THEN weekend_bonus_partial ELSE 0)
        pref ==
            (IF emp \in cfg.pref_late /\ v = shift_to_int["L"] THEN pref_weight ELSE 0)
            + (IF emp \in cfg.pref_early /\ v = shift_to_int["E"] THEN pref_weight ELSE 0)
            + (IF emp \in cfg.pref_middle /\ v = shift_to_int["M"] THEN pref_weight ELSE 0)
        penalty == IF s = NoSlack THEN 0 ELSE - SLACK_WEIGHT * s
    IN  weekend + pref + penalty

(***************************************************************************)
(* The solver.                                                             *)
(***************************************************************************)
Installed(name) == name \in model

\* The installed constraints on x[ww, dd, e] alone.
SlotOK(ww, dd, e, v) ==
    /\ Installed("add_allowed_shifts") => add_allowed_shifts(Emp(e), v)
    /\ Installed("refactor_add_allowed_shifts") => refactor_add_allowed_shifts(Emp(e), v)
    /\ Installed("add_daily_coverage_constraints")
          => add_daily_coverage_constraints(<<v>>, dd, FALSE)
    /\ Installed("add_employee_specific_constraints") => days_wont_work(Emp(e), dd, v)
    /\ Installed("add_temporary_constraints") => add_temporary_constraints(Emp(e), ww, dd, v)
    /\ Installed("apply_alternating_offset") => apply_alternating_offset(Emp(e), ww, dd, v)
    /\ Installed("enforce_strict_alternating_weekends")
          => enforce_strict_alternating_weekends(Emp(e), ww, dd, v)
    /\ Installed("add_consecutive_day_limit_with_offset")
          => add_consecutive_day_limit_with_offset(Emp(e), ww * days_per_week + dd,
                                                   <<Working(v)>>)
    /\ Installed("day0_pin") => day0_pin(Emp(e), ww, dd, v)
    /\ Installed("enforce_strict_alternating_weekends_offsets")
          => enforce_strict_alternating_weekends_offsets(Emp(e), ww, dd, v)

HasQuota(e) ==
    Installed("add_employee_specific_constraints") /\ Emp(e) \in DOMAIN cfg.working_days

\* sum(w_bools) of the week of employee e once x[w, d, e] = v.
WeekWork(e, v) == (IF d = 0 THEN 0 ELSE week_work[e]) + (IF Working(v) THEN 1 ELSE 0)

\* The working indicators of employee e once x[w, d, e] = v.
IsWork(e, v) ==
    LET b == IF cfg.script \in {"refactor", "creation"} THEN work(v) ELSE Working(v)
    IN  LastOf(Append(is_work[e], b), max_consecutive + 1)

\* The values that the six_in_a_row variable of the block that ends with
\* x[w, d, e] = v can take: one variable for each block of 6 days of the
\* horizon, none when no such block ends with that day.
SixInARow(e, v) ==
    IF Installed("add_consecutive_day_constraints")
    THEN IF Len(IsWork(e, v)) >= 6
         THEN { <<six>> : six \in
                  {b \in BOOLEAN :
                      add_consecutive_day_constraints(LastOf(IsWork(e, v), 7),
                                                      LastOf(IsWork(e, v), 6), b)} }
         ELSE { << >> }
    ELSE { << >> }

\* The values that consec[(e, t)] can take once x[w, d, e] = v.
Consec(e, v) ==
    {c \in 0 .. consec_max :
        add_consecutive_working_constraints(Emp(e), w * days_per_week + d,
                                            consec[e], v, c)}

\* An alternating-weekend installer is installed.
Alternating ==
    \/ Installed("apply_alternating_offset")
    \/ Installed("enforce_strict_alternating_weekends")
    \/ Installed("enforce_strict_alternating_weekends_offsets")

\* main(): what the run writes and prints for a status of the solver.
surface(st) ==
    IF st \in {"OPTIMAL", "FEASIBLE"}
    THEN [file |-> TRUE, printed |-> "Solution found. Wrote to:"]
    ELSE [file |-> FALSE, printed |-> "No solution found."]

NoOutput == [file |-> FALSE, printed |-> ""]

\* The installed constraints that the value v of x[w, d, Len(x) + 1] decides,
\* or that no value of the later variables can satisfy any more.
ValueOK(v) ==
    LET e == Len(x) + 1
        row == Append(x, v)
    IN  /\ SlotOK(w, d, e, v)
        /\ Installed("add_daily_coverage_constraints")
              => add_daily_coverage_constraints(row, d, e = N)
        /\ Installed("refactor_add_daily_coverage_constraints")
              => refactor_add_daily_coverage_constraints(row, e = N)
        /\ Installed("add_stepup_priority") => add_stepup_priority(row)
        /\ Installed("add_reserve_priority") => add_reserve_priority(row)
        /\ HasQuota(e) =>
              \E s \in 0 .. days_per_week, rest \in 0 .. (days_per_week - 1) - d :
                  add_employee_specific_constraints(Emp(e), WeekWork(e, v) + rest, s)
        /\ (Installed("add_no_late_to_early_constraint") /\ prev # << >>)
              => add_no_late_to_early_constraint(w, d, prev[e], v)
        /\ (Installed("add_week_boundary_constraints") /\ prev # << >>)
              => add_week_boundary_constraints(w, d, prev[e], v)
        /\ Installed("add_consecutive_day_limit_with_offset")
              => add_consecutive_day_limit_with_offset(Emp(e), w * days_per_week + d,
                                                       LastOf(IsWork(e, v), max_consecutive))
        /\ Installed("add_consecutive_working_constraints") => Consec(e, v) # {}
        /\ Installed("add_consecutive_day_constraints") => SixInARow(e, v) # {}

Init0 ==
    /\ pc = "build"
    /\ model = {}
    /\ status = "UNKNOWN"
    /\ w = 0
    /\ d = 0
    /\ x = << >>
    /\ prev = << >>
    /\ is_work = [e \in 1 .. N |-> << >>]
    /\ week_work = [e \in 1 .. N |-> 0]
    /\ slack = [e \in 1 .. N |-> NoSlack]
    /\ sun_off = [e \in 1 .. N |-> FALSE]
    /\ objective = 0
    /\ weekends = [e \in 1 .. N |-> << >>]
    /\ consec = [e \in 1 .. N |-> 0]
    /\ last_block = [e \in 1 .. N |-> << >>]
    /\ six_in_a_row = [e \in 1 .. N |-> << >>]
    /\ output = NoOutput

\* The names of the employees list.
EmployeeNames == {Emp(e) : e \in 1 .. N}

\* The installer raises an exception on the rules of cfg: the KeyError of
\* day_name_to_index[day] for a listed employee, or the ValueError of
\* employees.index(emp) for an alternating employee who is not listed.
Raises(name) ==
    \/ /\ name = "add_employee_specific_constraints"
       /\ \E emp \in DOMAIN cfg.wont_work :
             emp \in EmployeeNames /\ cfg.wont_work[emp] \notin DOMAIN day_name_to_index
    \/ /\ name \in {"apply_alternating_offset", "enforce_strict_alternating_weekends",
                     "enforce_strict_alternating_weekends_offsets"}
       /\ \E emp \in cfg.alt : emp \notin EmployeeNames

\* main(): the next installer of the pipeline is called; an exception that
\* it raises ends the run.
Build ==
    /\ pc = "build"
    /\ \E i \in DOMAIN MainOrder :
          /\ MainOrder[i] \in cfg.pipeline \ model
          /\ \A j \in 1 .. i - 1 : MainOrder[j] \in cfg.pipeline => MainOrder[j] \in model
          /\ IF Raises(MainOrder[i])
             THEN pc' = "failed" /\ model' = model
             ELSE pc' = pc /\ model' = model \cup {MainOrder[i]}
    /\ UNCHANGED <<cfg, status, w, d, x, acc, output>>

\* solver.Solve(model): a variable whose own constraints leave it no value
\* makes the model infeasible; otherwise the search starts.
Solve ==
    /\ pc = "build"
    /\ model = cfg.pipeline
    /\ IF \E ww \in 0 .. num_weeks - 1, dd \in 0 .. days_per_week - 1, e \in 1 .. N :
             \A v \in initialize_model : ~SlotOK(ww, dd, e, v)
       THEN pc' = "done" /\ status' = "INFEASIBLE" /\ output' = surface("INFEASIBLE")
       ELSE pc' = "search" /\ status' = status /\ output' = output
    /\ UNCHANGED <<cfg, model, w, d, x, acc>>

\* The variables once x[w, d, e] = v, s being the slack of the week that
\* this value completes (NoSlack when it completes none).
Assign(e, v, s) ==
    /\ x' = Append(x, v)
    /\ is_work' = IF \/ Installed("add_consecutive_day_limit_with_offset")
                     \/ Installed("add_consecutive_working_constraints")
                     \/ Installed("add_consecutive_day_constraints")
                  THEN [is_work EXCEPT ![e] = IsWork(e, v)]
                  ELSE is_work
    /\ week_work' = IF HasQuota(e) THEN [week_work EXCEPT ![e] = WeekWork(e, v)]
                    ELSE week_work
    /\ slack' = IF HasQuota(e) THEN [slack EXCEPT ![e] = s] ELSE slack
    /\ sun_off' = IF Installed("add_objective") /\ d = 0
                  THEN [sun_off EXCEPT ![e] = (v = shift_to_int["D/O"])]
                  ELSE sun_off
    /\ \E six \in SixInARow(e, v) :
          /\ six_in_a_row' = [six_in_a_row EXCEPT ![e] = @ \o six]
          /\ objective' =
                objective
                + (IF Installed("add_objective")
                   THEN add_objective(Emp(e), d, v, sun_off[e], s) ELSE 0)
                + (IF Installed("creation_script_objective")
                   THEN creation_script_objective(Emp(e), v, six) ELSE 0)
    /\ weekends' = IF Alternating /\ Emp(e) \in cfg.alt /\ d \in {0, days_per_week - 1}
                   THEN [weekends EXCEPT ![e] = Append(@, v)]
                   ELSE weekends
    /\ consec' = IF Installed("add_consecutive_working_constraints")
                 THEN [consec EXCEPT ![e] = CHOOSE c \in Consec(e, v) : TRUE]
                 ELSE consec
    /\ last_block' = IF cfg.runs > 1
                     THEN [last_block EXCEPT ![e] = IF d = 0 THEN <<v>> ELSE Append(@, v)]
                     ELSE last_block

\* The solver fixes x[w, d, Len(x) + 1] and, with the last day of a week, the
\* slack of that week.
AssignSlot ==
    /\ pc = "search"
    /\ Len(x) < N
    /\ \E v \in initialize_model :
          LET e == Len(x) + 1
          IN  /\ ValueOK(v)
              /\ IF HasQuota(e) /\ d = days_per_week - 1
                 THEN \E s \in 0 .. days_per_week :
                         /\ add_employee_specific_constraints(Emp(e), WeekWork(e, v), s)
                         /\ Assign(e, v, s)
                 ELSE Assign(e, v, NoSlack)
    /\ UNCHANGED <<pc, cfg, model, status, w, d, prev, output>>

\* The row of the day is complete: the solver goes on to the next day.
NextDay ==
    /\ pc = "search"
    /\ Len(x) = N
    /\ w * days_per_week + d < total_days - 1
    /\ d' = (d + 1) % days_per_week
    /\ w' = IF d = days_per_week - 1 THEN w + 1 ELSE w
    /\ prev' = IF \/ Installed("add_no_late_to_early_constraint")
                  \/ Installed("add_week_boundary_constraints")
               THEN x ELSE << >>
    /\ x' = << >>
    /\ UNCHANGED <<pc, cfg, model, status, is_work, week_work, slack, sun_off, objective,
                   weekends, consec, last_block, six_in_a_row, output>>

\* Every variable has a value and every installed constraint holds: x is a
\* schedule that the solver can report (OPTIMAL or FEASIBLE, which main()
\* handles alike).
Finish ==
    /\ pc = "search"
    /\ Len(x) = N
    /\ w * days_per_week + d = total_days - 1
    /\ pc' = "done"
    /\ status' = "FEASIBLE"
    /\ output' = surface("FEASIBLE")
    /\ UNCHANGED <<cfg, model, w, d, x, acc>>

Next == Build \/ Solve \/ AssignSlot \/ NextDay \/ Finish

(***************************************************************************)
(* The next period: the third script is run again and reads the rota that  *)
(* the run before it wrote.                                                *)
(***************************************************************************)
int_to_shift == (0 :> "E") @@ (1 :> "M") @@ (2 :> "L") @@ (3 :> "D/O") @@ (4 :> "H")

\* write_output_csv: the cells of the row of emp in a block, after the name.
write_output_csv(emp, row) ==
    [i \in DOMAIN row |->
        IF emp \in cfg.stepup /\ int_to_shift[row[i]] = "D/O" THEN ""
        ELSE int_to_shift[row[i]]]

\* load_last_rota: the cells at the end of the row that are a working shift.
RECURSIVE TrailingShifts(_)
TrailingShifts(cells) ==
    IF cells = << >> \/ cells[Len(cells)] \in {"D/O", "", "H"} THEN 0
    ELSE 1 + TrailingShifts(SubSeq(cells, 1, Len(cells) - 1))

\* load_last_rota: previous_state from the rows of the last block (rows maps
\* a name to the cells after it).
load_last_rota(rows) ==
    [emp \in DOMAIN rows |->
        LET cells == rows[emp]
            sun_shift == IF Len(cells) + 1 > 1 THEN cells[1] ELSE ""
            sat_shift == IF Len(cells) + 1 >= 7 THEN cells[Len(cells)] ELSE ""
        IN  [consecutive |-> TrailingShifts(cells),
             weekend_off |-> (sun_shift = "D/O" /\ sat_shift = "D/O")]]

\* The rows of the last block of the rota that the run has written.
LastBlock ==
    [emp \in {Emp(e) : e \in 1 .. N} |->
        write_output_csv(emp, last_block[CHOOSE e \in 1 .. N : Emp(e) = emp])]

\* parse_last_week_consecutive_days: the cells at the end of shifts_7 that
\* are neither blank nor "D/O" (strip and upper leave the cells that
\* write_output_csv writes as they are).
RECURSIVE TrailingNonBlank(_)
TrailingNonBlank(shifts_7) ==
    IF shifts_7 = << >> \/ shifts_7[Len(shifts_7)] \in {"", "D/O"} THEN 0
    ELSE 1 + TrailingNonBlank(SubSeq(shifts_7, 1, Len(shifts_7) - 1))

\* parse_last_week_consecutive_days: rows holds the rows of the last block
\* (no row at all when there is no file).
parse_last_week_consecutive_days(rows, employees) ==
    [emp \in employees |->
        LET shifts_7 == IF emp \in DOMAIN rows
                        THEN SubSeq(rows[emp], 1, IF Len(rows[emp]) < 7 THEN Len(rows[emp]) ELSE 7)
                        ELSE << >>
        IN  IF shifts_7 = << >> THEN 0 ELSE TrailingNonBlank(shifts_7)]

\* parse_last_week_alternating: "off" when the Sunday and the Saturday cells
\* of the last block are blank or "D/O"; rows shorter than a week are skipped.
parse_last_week_alternating(rows) ==
    LET is_off(c) == c = "" \/ c = "D/O"
    IN  [emp \in {n \in DOMAIN rows : Len(rows[n]) + 1 >= 8} |->
            IF is_off(rows[emp][7]) /\ is_off(rows[emp][1]) THEN "off" ELSE "on"]

\* The script is started again for the period that follows: it loads the
\* rota of the run before and builds a new model.  weekends keeps the weekend
\* days of the run before, so that it holds those of both periods.
Rerun ==
    /\ pc = "done"
    /\ output.file
    /\ cfg.runs > 1
    /\ cfg' = [cfg EXCEPT
                 !.runs = @ - 1,
                 !.previous_state = load_last_rota(LastBlock),
                 !.prev_consecutive =
                     parse_last_week_consecutive_days(LastBlock, EmployeeNames),
                 !.alt_last = parse_last_week_alternating(LastBlock)]
    /\ pc' = "build"
    /\ model' = {}
    /\ status' = "UNKNOWN"
    /\ w' = 0
    /\ d' = 0
    /\ x' = << >>
    /\ prev' = << >>
    /\ is_work' = [e \in 1 .. N |-> << >>]
    /\ week_work' = [e \in 1 .. N |-> 0]
    /\ slack' = [e \in 1 .. N |-> NoSlack]
    /\ sun_off' = [e \in 1 .. N |-> FALSE]
    /\ objective' = 0
    /\ consec' = [e \in 1 .. N |-> 0]
    /\ last_block' = [e \in 1 .. N |-> << >>]
    /\ six_in_a_row' = [e \in 1 .. N |-> << >>]
    /\ output' = NoOutput
    /\ UNCHANGED weekends

NextPeriods == Next \/ Rerun

(***************************************************************************)
(* The rules that the runs start from.                                     *)
(***************************************************************************)
\* The first date of the roster ("Start Date"), a Sunday, in days.
StartDate == 10

NoHoliday == [active |-> FALSE, start |-> NoDate, end |-> NoDate]

NoTemp == [days_off |-> {}, Early |-> NoDate, Middle |-> NoDate, Late |-> NoDate,
           holiday |-> NoHoliday]

Rules(emps, stepup, weeks, pipeline) ==
    [ script |-> "generator", employees |-> emps, stepup |-> stepup,
      num_weeks |-> weeks,
      will_early |-> {}, will_middle |-> {}, will_late |-> {},
      working_days |-> EmptyMap, wont_work |-> EmptyMap,
      alt |-> {}, alt_last |-> EmptyMap, prev_consecutive |-> EmptyMap,
      previous_state |-> EmptyMap, runs |-> 1,
      pref_late |-> {}, pref_early |-> {}, pref_middle |-> {},
      temp |-> EmptyMap, start |-> StartDate,
      pipeline |-> pipeline ]

CoverageScenarios ==
    { Rules(<<"L1", "L2", "R1">>, {"R1"}, MaxWeeks, {"add_daily_coverage_constraints"}),
      [ Rules(<<"L1", "L2", "R1">>, {"R1"}, MaxWeeks,
              {"refactor_add_daily_coverage_constraints"})
        EXCEPT !.script = "refactor" ] }

InitCoverage == cfg \in CoverageScenarios /\ Init0

SpecCoverage == InitCoverage /\ [][Next]_vars

AllShifts(r, emps) == [r EXCEPT !.will_early = emps, !.will_middle = emps, !.will_late = emps]

FullRoster ==
    [ AllShifts(Rules(<<"L1", "L2", "L3", "L4", "R1">>, {"R1"}, 1,
                      {"add_allowed_shifts", "add_daily_coverage_constraints",
                       "add_stepup_priority", "add_employee_specific_constraints"}),
                {"L1", "L2", "L3", "L4", "R1"})
      EXCEPT !.working_days = ("L1" :> 5) @@ ("L2" :> 5) @@ ("L3" :> 5) @@ ("L4" :> 5)
                              @@ ("R1" :> 2) ]

InitQuota == cfg = FullRoster /\ Init0

SpecQuota == InitQuota /\ [][Next]_vars

TransitionScenarios ==
    { Rules(<<"L1", "R1">>, {"R1"}, MaxWeeks, {"add_no_late_to_early_constraint"}) }

InitTransition == cfg \in TransitionScenarios /\ Init0

SpecTransition == InitTransition /\ [][Next]_vars

\* One employee whose last roster ended with c working days, or who has no
\* last roster.
ConsecutiveScenarios ==
    { [ Rules(<<"L1">>, {}, MaxWeeks, {"add_consecutive_day_limit_with_offset"})
        EXCEPT !.prev_consecutive = pc0 ] :
          pc0 \in {EmptyMap} \cup { ("L1" :> c) : c \in 0 .. MaxPrev } }

InitConsecutive == cfg \in ConsecutiveScenarios /\ Init0

SpecConsecutive == InitConsecutive /\ [][Next]_vars

\* Every content of the three eligibility lists for two employees.
EligibilityScenarios ==
    { [ Rules(<<"L1", "R1">>, {"R1"}, MaxWeeks, {"add_allowed_shifts"})
        EXCEPT !.will_early = we, !.will_middle = wm, !.will_late = wl ] :
          we \in SUBSET {"L1", "R1"}, wm \in SUBSET {"L1", "R1"},
          wl \in SUBSET {"L1", "R1"} }

InitEligibility == cfg \in EligibilityScenarios /\ Init0

SpecEligibility == InitEligibility /\ [][Next]_vars

PriorityScenarios ==
    { Rules(<<"L1", "L2", "R1", "R2">>, {"R1", "R2"}, MaxWeeks, {inst}) :
          inst \in {"add_stepup_priority", "add_reserve_priority"} }

InitPriority == cfg \in PriorityScenarios /\ Init0

SpecPriority == InitPriority /\ [][Next]_vars

Holiday(a, b) == [active |-> TRUE, start |-> a, end |-> b]

\* The temporary rules of L1: dates inside, before and after the horizon, an
\* empty string among the days off, a holiday that is inactive or lacks its
\* end, holidays that straddle the first and the last day of the horizon.
TemporaryRules ==
    { [ days_off |-> off, Early |-> early, Middle |-> NoDate, Late |-> late,
        holiday |-> hol ] :
          off \in { {}, {NoDate}, {StartDate + 2}, {StartDate - 1, StartDate + 8},
                    {StartDate + 7 * MaxWeeks} },
          early \in {NoDate, StartDate + 3},
          late \in {NoDate, StartDate + 4, StartDate + 7 * MaxWeeks + 1},
          hol \in { NoHoliday,
                    Holiday(StartDate + 5, StartDate + 6),
                    [active |-> FALSE, start |-> StartDate + 5, end |-> StartDate + 6],
                    Holiday(StartDate + 5, NoDate),
                    Holiday(StartDate - 3, StartDate),
                    Holiday(StartDate + 7 * MaxWeeks - 1, StartDate + 7 * MaxWeeks + 2) } }

TemporaryScenarios ==
    { [ Rules(<<"L1", "R1">>, {"R1"}, MaxWeeks, {"add_temporary_constraints"})
        EXCEPT !.temp = ("L1" :> r) ] : r \in TemporaryRules }

InitTemporary == cfg \in TemporaryScenarios /\ Init0

SpecTemporary == InitTemporary /\ [][Next]_vars

Everyone == {"L1", "R1"}

\* An override of L1 against another rule of the same slot, and one against
\* none.
OverrideScenarios ==
    LET base(pipeline) == AllShifts(Rules(<<"L1", "R1">>, {"R1"}, MaxWeeks, pipeline),
                                    Everyone)
    IN  { \* Early on a date, L1 not in "Will work Early".
          [ base({"add_allowed_shifts", "add_temporary_constraints"})
            EXCEPT !.will_early = {"R1"},
                   !.temp = ("L1" :> [NoTemp EXCEPT !.Early = StartDate + 1]) ],
          \* Late on a Monday, L1 has "Days won't work": Monday.
          [ base({"add_allowed_shifts", "add_employee_specific_constraints",
                  "add_temporary_constraints"})
            EXCEPT !.wont_work = ("L1" :> "Monday"),
                   !.temp = ("L1" :> [NoTemp EXCEPT !.Late = StartDate + 1]) ],
          \* Early on the last day of week 0, L1 has every other weekend off.
          [ base({"add_allowed_shifts", "add_temporary_constraints",
                  "apply_alternating_offset", "enforce_strict_alternating_weekends"})
            EXCEPT !.alt = {"L1"},
                   !.temp = ("L1" :> [NoTemp EXCEPT !.Early = StartDate + 6]) ],
          \* Early on day 0, L1 ended the last roster with 6 working days.
          [ base({"add_allowed_shifts", "add_temporary_constraints",
                  "add_consecutive_day_limit_with_offset"})
            EXCEPT !.prev_consecutive = ("L1" :> max_consecutive),
                   !.temp = ("L1" :> [NoTemp EXCEPT !.Early = StartDate]) ],
          \* Early on a date, no other rule on that slot.
          [ base({"add_allowed_shifts", "add_temporary_constraints"})
            EXCEPT !.temp = ("L1" :> [NoTemp EXCEPT !.Early = StartDate + 1]) ] }

InitOverride == cfg \in OverrideScenarios /\ Init0

SpecOverride == InitOverride /\ [][Next]_vars

\* L1 has a quota of 5 and a holiday; L2 has a quota of 5, L3 none; the
\* Reserve R1 has a cap of 2.
\* The horizon and the holiday of L1: none, all of the only week, its five
\* days from Monday to Friday, all the weeks after the first of a longer
\* horizon.
SlackHolidays ==
    { <<1, NoHoliday>>,
      <<1, Holiday(StartDate, StartDate + 6)>>,
      <<1, Holiday(StartDate + 1, StartDate + 5)>>,
      <<MaxWeeks, Holiday(StartDate + 7, StartDate + 7 * MaxWeeks - 1)>> }

SlackScenarios ==
    { [ Rules(<<"L1", "L2", "L3", "R1">>, {"R1"}, hol[1],
              {"add_allowed_shifts", "add_daily_coverage_constraints",
               "add_stepup_priority", "add_employee_specific_constraints",
               "add_temporary_constraints", "add_objective"})
        EXCEPT !.will_early = {"L1", "L2", "L3"},
               !.will_middle = {"L1", "L3"},
               !.will_late = {"L1", "L2", "R1"},
               !.working_days = ("L1" :> 5) @@ ("L2" :> 5) @@ ("R1" :> 2),
               !.temp = ("L1" :> [NoTemp EXCEPT !.holiday = hol[2]]) ] :
          hol \in SlackHolidays }

InitSlack == cfg \in SlackScenarios /\ Init0

SpecSlack == InitSlack /\ [][Next]_vars

\* The third script with an alternating employee: the last rota is absent,
\* or says that the last weekend was worked, or that it was off.
CarryOver(n, off) == [consecutive |-> n, weekend_off |-> off]

AlternationWeeks == MaxWeeks + 1

AlternationScenarios ==
    { [Rules(<<"L1", "L2">>, {}, weeks,
             {"enforce_strict_alternating_weekends_offsets"})
          EXCEPT !.alt = {"L1"}, !.will_early = {"L2"}, !.previous_state = last] :
        weeks \in {MaxWeeks, AlternationWeeks},
        last \in {EmptyMap} \cup {("L1" :> CarryOver(0, off)) : off \in BOOLEAN} }

InitAlternation == cfg \in AlternationScenarios /\ Init0

SpecAlternation == InitAlternation /\ [][Next]_vars

\* The first script with an alternating employee: the last rota is absent,
\* or its last weekend was "off", or it was "on".
OffsetScenarios ==
    { [Rules(<<"L1", "L2">>, {}, MaxWeeks,
             {"apply_alternating_offset", "enforce_strict_alternating_weekends"})
          EXCEPT !.alt = {"L1"}, !.will_early = {"L2"}, !.alt_last = last] :
        last \in {EmptyMap, "L1" :> "off", "L1" :> "on"} }

InitOffset == cfg \in OffsetScenarios /\ Init0

SpecOffset == InitOffset /\ [][Next]_vars

\* Two successive periods of the third script with an alternating employee,
\* a Lead or a Reserve, who is eligible for Early.
PeriodScenarios ==
    { [Rules(<<"A1">>, stepup, MaxWeeks,
             {"add_allowed_shifts", "enforce_strict_alternating_weekends_offsets"})
          EXCEPT !.alt = {"A1"}, !.will_early = {"A1"}, !.runs = 2,
                 !.previous_state = last] :
        stepup \in {{}, {"A1"}},
        last \in {EmptyMap, "A1" :> CarryOver(0, TRUE)} }

InitPeriods == cfg \in PeriodScenarios /\ Init0

SpecPeriods == InitPeriods /\ [][NextPeriods]_vars

\* The objective of one week.  Whoever is in "Every other weekend off" has
\* no weekend term, and with one week the alternating installers constrain
\* nothing.
AlternatingPipeline == {"apply_alternating_offset", "enforce_strict_alternating_weekends"}

\* One Lead who prefers Early and has no weekend term and no quota.
PreferenceScenario ==
    [Rules(<<"L1">>, {}, 1,
           {"add_allowed_shifts", "add_objective"} \cup AlternatingPipeline)
        EXCEPT !.alt = {"L1"}, !.will_early = {"L1"}, !.will_late = {"L1"},
               !.pref_early = {"L1"}]

\* A Reserve with a cap of two days next to a Lead; nobody has a weekend
\* term or a preference.
ReserveCapScenario ==
    [Rules(<<"L1", "R1">>, {"R1"}, 1,
           {"add_allowed_shifts", "add_employee_specific_constraints", "add_objective"}
               \cup AlternatingPipeline)
        EXCEPT !.alt = {"L1", "R1"}, !.will_early = {"L1", "R1"}, !.will_late = {"L1"},
               !.working_days = "R1" :> 2]

\* Two Leads, one of them alternating, and a Reserve; no preference and no
\* quota.
WeekendBonusScenario ==
    [Rules(<<"L1", "L2", "R1">>, {"R1"}, 1,
           {"add_allowed_shifts", "add_objective"} \cup AlternatingPipeline)
        EXCEPT !.alt = {"L2"}, !.will_early = {"L1", "L2", "R1"}]

ObjectiveScenarios == {PreferenceScenario, ReserveCapScenario, WeekendBonusScenario}

InitObjective == cfg \in ObjectiveScenarios /\ Init0

SpecObjective == InitObjective /\ [][Next]_vars

\* One week of the first script.  L1 is eligible for Early only and is
\* pinned to Early on the first day; L2 is eligible for Early and Late,
\* prefers Early and has a quota of seven days; the Reserve R1 is eligible
\* for Late.  Nobody has a weekend term.
DominanceScenario ==
    [Rules(<<"L1", "L2", "R1">>, {"R1"}, 1,
           {"add_allowed_shifts", "add_daily_coverage_constraints",
            "add_stepup_priority", "add_employee_specific_constraints",
            "add_temporary_constraints", "add_no_late_to_early_constraint",
            "add_objective"} \cup AlternatingPipeline)
        EXCEPT !.alt = {"L1", "L2", "R1"},
               !.will_early = {"L1", "L2"}, !.will_late = {"L2", "R1"},
               !.pref_early = {"L2"},
               !.working_days = "L2" :> days_per_week,
               !.temp = "L1" :> [NoTemp EXCEPT !.Early = StartDate]]

InitDominance == cfg = DominanceScenario /\ Init0

SpecDominance == InitDominance /\ [][Next]_vars

\* The third script with one employee who is eligible for Early and comes
\* in with no rota or with 0 .. 7 working days at the end of the last week.
CarryInScenarios ==
    { [Rules(<<"L1">>, {}, MaxWeeks,
             {"day0_pin", "add_allowed_shifts", "add_consecutive_working_constraints"})
          EXCEPT !.will_early = {"L1"}, !.previous_state = last] :
        last \in {EmptyMap}
                 \cup {("L1" :> CarryOver(n, FALSE)) : n \in 0 .. days_per_week} }

InitCarryIn == cfg \in CarryInScenarios /\ Init0

SpecCarryIn == InitCarryIn /\ [][Next]_vars

\* Rules of the first script that name somebody who is not an employee, or
\* a day that is not a day of the week, next to rules that are in order.
ConfigRules ==
    [Rules(<<"L1", "R1">>, {"R1"}, 1,
           {"add_allowed_shifts", "add_employee_specific_constraints",
            "add_objective"} \cup AlternatingPipeline)
        EXCEPT !.will_early = {"L1", "R1"}]

ConfigScenarios ==
    { ConfigRules,
      [ConfigRules EXCEPT !.wont_work = "L1" :> "Monday"],
      [ConfigRules EXCEPT !.wont_work = "Zed" :> "Monday"],
      [ConfigRules EXCEPT !.wont_work = "L1" :> "Funday"],
      [ConfigRules EXCEPT !.alt = {"L1", "Zed"}],
      [ConfigRules EXCEPT !.will_late = {"Zed"}],
      [ConfigRules EXCEPT !.pref_early = {"L1", "Zed"}] }

InitConfig == cfg \in ConfigScenarios /\ Init0

SpecConfig == InitConfig /\ [][Next]_vars

\* Two successive periods of the first script with one employee, a Lead or
\* a Reserve, who is eligible for Early.
CarryOverScenarios ==
    { [Rules(<<"A1">>, stepup, MaxWeeks,
             {"add_allowed_shifts", "add_consecutive_day_limit_with_offset"})
          EXCEPT !.will_early = {"A1"}, !.runs = 2] :
        stepup \in {{}, {"A1"}} }

InitCarryOver == cfg \in CarryOverScenarios /\ Init0

SpecCarryOver == InitCarryOver /\ [][NextPeriods]_vars

\* Rota Creation Script Refactor.py and the Rota Creation Script with their
\* Late-to-Early constraints alone.
BoundaryScenarios ==
    { [ Rules(<<"L1", "R1">>, {"R1"}, MaxWeeks, {"add_week_boundary_constraints"})
          EXCEPT !.script = script ] : script \in {"refactor", "creation"} }

InitBoundary == cfg \in BoundaryScenarios /\ Init0

SpecBoundary == InitBoundary /\ [][Next]_vars

\* Rota Creation Script Refactor.py with add_allowed_shifts alone: A1 is in
\* one or in all of the eligibility lists, A2 is in none of them.
RefactorEligibilityScenarios ==
    { [ Rules(<<"A1", "A2">>, {}, MaxWeeks, {"refactor_add_allowed_shifts"})
          EXCEPT !.script = "refactor", !.will_early = {"A1"},
                 !.will_middle = middle, !.will_late = middle ] :
        middle \in {{}, {"A1"}} }

InitRefactorEligibility == cfg \in RefactorEligibilityScenarios /\ Init0

SpecRefactorEligibility == InitRefactorEligibility /\ [][Next]_vars

\* The Rota Creation Script with its consecutive-day constraints and its
\* objective, for one employee with a preference.
CreationScenarios ==
    { [ Rules(<<emp>>, {}, MaxWeeks,
              {"add_consecutive_day_constraints", "creation_script_objective"})
          EXCEPT !.script = "creation" ] : emp \in {"Jennifer", "Stacey"} }

InitCreation == cfg \in CreationScenarios /\ Init0

SpecCreation == InitCreation /\ [][Next]_vars

Spec == SpecCoverage

(***************************************************************************)
(* The properties.                                                         *)
(***************************************************************************)

\* The employees whose value of the current day is fixed.
Fixed == 1 .. Len(x)

RowComplete == pc \in {"search", "done"} /\ Len(x) = N

\* C1: with add_daily_coverage_constraints installed (Rota Generator.py or
\* Rota Creation Script Refactor.py), every day of the horizon, once all its
\* employees have a value, has at least one Early and at least one Late.
C1_Coverage ==
    (RowComplete /\ (Installed("add_daily_coverage_constraints")
                     \/ Installed("refactor_add_daily_coverage_constraints")))
        => /\ \E e \in Fixed : x[e] = shift_to_int["E"]
           /\ \E e \in Fixed : x[e] = shift_to_int["L"]

\* The last day of the horizon is complete, with one Early and one Late.
C1_Witness ==
    /\ pc = "done"
    /\ status = "FEASIBLE"
    /\ Installed("add_daily_coverage_constraints")
    /\ w = num_weeks - 1 /\ d = days_per_week - 1
    /\ Count(x, shift_to_int["E"]) = 1
    /\ Count(x, shift_to_int["L"]) = 1

\* C2: with add_no_late_to_early_constraint installed, no employee is Late on
\* a day and Early on the next day, the first day of a week after the last
\* day of the week before included.
C2_NoLateToEarly ==
    (Installed("add_no_late_to_early_constraint") /\ prev # << >>)
        => \A e \in Fixed :
              ~(prev[e] = shift_to_int["L"] /\ x[e] = shift_to_int["E"])

\* An employee was Late on the last day of week 0 and has a value on the
\* first day of week 1.
C2_Witness ==
    /\ Installed("add_no_late_to_early_constraint")
    /\ w = 1 /\ d = 0
    /\ Len(x) = N
    /\ prev[1] = shift_to_int["L"]
    /\ x[1] = shift_to_int["L"]

\* C3: with add_consecutive_day_limit_with_offset installed (max_consecutive
\* = 6), of every 7 consecutive days of the horizon an employee works at most
\* 6, whatever the carried-in count.
C3_SevenDayWindow ==
    Installed("add_consecutive_day_limit_with_offset")
        => \A e \in 1 .. N :
              Len(is_work[e]) = max_consecutive + 1
                  => SumFlags(is_work[e]) <= max_consecutive

\* C4: with add_allowed_shifts installed, an employee outside the list of a
\* working shift is never assigned it, and Day Off and Holiday are open to
\* every employee.
C4_Eligibility ==
    Installed("add_allowed_shifts")
        => /\ \A e \in Fixed :
                 /\ x[e] = shift_to_int["E"] => Emp(e) \in cfg.will_early
                 /\ x[e] = shift_to_int["M"] => Emp(e) \in cfg.will_middle
                 /\ x[e] = shift_to_int["L"] => Emp(e) \in cfg.will_late
           /\ \A e \in 1 .. N, v \in {shift_to_int["D/O"], shift_to_int["H"]} :
                 SlotOK(w, d, e, v)

\* An employee in no list is on Holiday while the other, who is in the Late
\* list alone, is Late.
C4_Witness ==
    /\ Installed("add_allowed_shifts")
    /\ pc = "search"
    /\ cfg.will_early = {} /\ cfg.will_middle = {} /\ cfg.will_late = {"L1"}
    /\ Len(x) = N
    /\ x[1] = shift_to_int["L"]
    /\ x[2] = shift_to_int["H"]

\* C5: with add_stepup_priority or add_reserve_priority installed, a working
\* shift that a Lead has on a day is not the shift of any Reserve that day.
C5_LeadBeforeReserve ==
    (Installed("add_stepup_priority") \/ Installed("add_reserve_priority"))
        => \A shift \in {"E", "M", "L"} :
              (\E e \in Fixed : Emp(e) \notin cfg.stepup /\ x[e] = shift_to_int[shift])
                  => ~(\E e \in Fixed : Emp(e) \in cfg.stepup
                                        /\ x[e] = shift_to_int[shift])

\* A Lead is Early and a Reserve works the same day, on another shift.
C5_Witness ==
    /\ Installed("add_stepup_priority")
    /\ RowComplete
    /\ x[1] = shift_to_int["E"]
    /\ x[2] = shift_to_int["D/O"]
    /\ x[3] = shift_to_int["L"]
    /\ x[4] = shift_to_int["H"]

HolidayCovers(emp, date) ==
    /\ emp \in DOMAIN cfg.temp
    /\ cfg.temp[emp].holiday.active
    /\ cfg.temp[emp].holiday.start # NoDate
    /\ cfg.temp[emp].holiday.end # NoDate
    /\ cfg.temp[emp].holiday.start <= date
    /\ date <= cfg.temp[emp].holiday.end

\* The values that the entries of emp name for a calendar date.
Named(emp, date) ==
    IF emp \notin DOMAIN cfg.temp THEN {}
    ELSE LET r == cfg.temp[emp]
         IN  (IF date \in r.days_off THEN {shift_to_int["D/O"]} ELSE {})
             \cup (IF date = r.Early THEN {shift_to_int["E"]} ELSE {})
             \cup (IF date = r.Middle THEN {shift_to_int["M"]} ELSE {})
             \cup (IF date = r.Late THEN {shift_to_int["L"]} ELSE {})
             \cup (IF HolidayCovers(emp, date) THEN {shift_to_int["H"]} ELSE {})

\* C6: add_temporary_constraints pins the slot (w, d), of calendar date
\* Start Date + 7 * w + d, to each value that an entry names for that date
\* (a day off, a forced shift, a day of an active holiday with both ends),
\* and leaves every other slot free.
C6_TemporaryPins ==
    Installed("add_temporary_constraints")
        => /\ \A e \in Fixed :
                 \A n \in Named(Emp(e), StartDate + 7 * w + d) : x[e] = n
           /\ \A ww \in 0 .. num_weeks - 1, dd \in 0 .. days_per_week - 1,
                 e \in 1 .. N, v \in initialize_model :
                 SlotOK(ww, dd, e, v)
                     <=> (\A n \in Named(Emp(e), StartDate + 7 * ww + dd) : v = n)

\* L1 has a day off on the second day of week 1, listed beside a date before
\* the horizon, and an inactive holiday whose last day is free here.
C6_Witness ==
    /\ Installed("add_temporary_constraints")
    /\ cfg.temp["L1"].days_off = {StartDate - 1, StartDate + 8}
    /\ ~cfg.temp["L1"].holiday.active
    /\ cfg.temp["L1"].holiday.end = StartDate + 6
    /\ cfg.temp["L1"].Early = StartDate + 3
    /\ w = 1 /\ d = 1
    /\ Len(x) = N
    /\ x[1] = shift_to_int["D/O"]

\* C7: a temporary override wins over the other hard rules of its slot: the
\* model with the override has a schedule.
C7_OverrideWins ==
    (pc = "done" /\ \E emp \in DOMAIN cfg.temp : cfg.temp[emp] # NoTemp)
        => status = "FEASIBLE"

\* The days of week ww that the active holiday of emp covers.
HolidayDays(emp, ww) ==
    Cardinality({dd \in 0 .. days_per_week - 1 :
                    HolidayCovers(emp, cfg.start + 7 * ww + dd)})

\* The employees with a "Working Days" entry whose week is complete.
WeekDone == {e \in Fixed : HasQuota(e) /\ d = days_per_week - 1}

\* C8: a Lead whose active holiday leaves fewer free days in a week than the
\* weekly quota is on Holiday on every covered date, ends the week with a
\* slack of the quota minus the days worked, which is more than 0, and the
\* objective is charged SLACK_WEIGHT for each unit of that slack.
C8_HolidayUsesSlack ==
    /\ [](\A e \in Fixed :
            /\ HolidayCovers(Emp(e), cfg.start + 7 * w + d) => x[e] = shift_to_int["H"]
            /\ (e \in WeekDone
                /\ HolidayDays(Emp(e), w) > days_per_week - cfg.working_days[Emp(e)])
                  => /\ slack[e] = cfg.working_days[Emp(e)] - week_work[e]
                     /\ slack[e] > 0)
    /\ [][(/\ pc = "search"
           /\ Installed("add_objective")
           /\ Len(x') = Len(x) + 1
           /\ d = days_per_week - 1
           /\ HolidayCovers(Emp(Len(x')), cfg.start + 7 * w + d)
           /\ HasQuota(Len(x')))
              => objective' = objective - SLACK_WEIGHT * slack'[Len(x')]]_vars

\* The schedule is complete; L1, on holiday for the whole last week, has a
\* slack of 5 for it, and L2 has none.
C8_Witness ==
    /\ pc = "done"
    /\ status = "FEASIBLE"
    /\ w = MaxWeeks - 1
    /\ HolidayDays("L1", w) = days_per_week
    /\ x[1] = shift_to_int["H"]
    /\ slack[1] = 5
    /\ slack[2] = 0
    /\ objective <= - SLACK_WEIGHT * 5

\* C9: for an employee with a "Working Days" entry, the working days of a
\* week never exceed the configured number, and at the end of the week the
\* working days plus the slack are the configured number, the slack being
\* between 0 and 7 and more than 0 exactly when the employee worked less.
C9_SlackEquation ==
    \A e \in Fixed :
        HasQuota(e)
            => /\ week_work[e] <= cfg.working_days[Emp(e)]
               /\ e \in WeekDone
                     => /\ slack[e] \in 0 .. 7
                        /\ week_work[e] + slack[e] = cfg.working_days[Emp(e)]
                        /\ slack[e] > 0 <=> week_work[e] < cfg.working_days[Emp(e)]

\* At the end of a week without holiday the Lead L1 worked 5 days of 5 and
\* the Reserve R1 one day of its 2.
C9_Witness ==
    /\ pc = "search"
    /\ d = days_per_week - 1
    /\ Len(x) = N
    /\ cfg.temp["L1"].holiday = NoHoliday
    /\ week_work[1] = 5 /\ slack[1] = 0
    /\ week_work[4] = 1 /\ slack[4] = 1

Leads == {e \in 1 .. N : Emp(e) \notin cfg.stepup}

\* The complete rows of day dd that the installed constraints of one day
\* admit.
AdmissibleRows(dd) ==
    {row \in [1 .. N -> initialize_model] :
        /\ \A e \in 1 .. N : SlotOK(0, dd, e, row[e])
        /\ Installed("add_daily_coverage_constraints")
              => add_daily_coverage_constraints(row, dd, TRUE)
        /\ Installed("add_stepup_priority") => add_stepup_priority(row)}

\* The largest number of Leads that work on day dd in an admissible row.
MaxLeadsAtWork(dd) ==
    LET counts == {Cardinality({e \in Leads : Working(row[e])}) : row \in AdmissibleRows(dd)}
    IN  CHOOSE n \in counts : \A m \in counts : m <= n

RECURSIVE LeadDaysAvailable(_)
LeadDaysAvailable(dd) ==
    IF dd < 0 THEN 0 ELSE MaxLeadsAtWork(dd) + LeadDaysAvailable(dd - 1)

RECURSIVE SumQuota(_)
SumQuota(S) ==
    IF S = {} THEN 0
    ELSE LET e == CHOOSE e \in S : TRUE
         IN  cfg.working_days[Emp(e)] + SumQuota(S \ {e})

\* C10: in the model of the first script for 4 Leads of quota 5 and a Reserve
\* of cap 2, all eligible for every shift, a schedule gives every Lead its 5
\* working days in every week: the days of a week have room for the quotas of
\* all the Leads together.
C10_QuotasFit ==
    (pc = "build" /\ model = cfg.pipeline)
        => LeadDaysAvailable(days_per_week - 1) >= SumQuota(Leads)

\* In every complete week of that model some Lead has slack.
C10_SomeLeadShort ==
    (RowComplete /\ d = days_per_week - 1) => \E e \in Leads : slack[e] > 0

\* A complete schedule of that model in which one Lead is one day short.
C10_Witness ==
    /\ pc = "done"
    /\ status = "FEASIBLE"
    /\ slack[1] = 1 /\ slack[2] = 0 /\ slack[3] = 0 /\ slack[4] = 0

(***************************************************************************)
(* Alternating weekends.  weekends[e] holds x on the days 0 and 6 of every  *)
(* week so far, so that the weekend pair k (the last day of week k and the *)
(* first day of week k + 1) is its elements 2k + 2 and 2k + 3.             *)
(***************************************************************************)
AltEmployees == {e \in 1 .. N : Emp(e) \in cfg.alt}

\* The weekend pairs of employee e that are decided.
Pairs(e) == {k \in 0 .. Len(weekends[e]) : 2 * k + 3 <= Len(weekends[e])}

PairOff(e, k) ==
    /\ weekends[e][2 * k + 2] = shift_to_int["D/O"]
    /\ weekends[e][2 * k + 3] = shift_to_int["D/O"]

PairOn(e, k) ==
    /\ weekends[e][2 * k + 2] # shift_to_int["D/O"]
    /\ weekends[e][2 * k + 3] # shift_to_int["D/O"]

\* The carried-over weekend-off flag of employee e.
WeekendOffFlag(e) == Get(cfg.previous_state, Emp(e), NoState).weekend_off

\* C11: in the third script the weekend pairs of an alternating employee
\* strictly alternate: of two consecutive pairs exactly one has both days
\* Day Off, every pair is all off or all on, and the first pair is off
\* exactly when the carried-over weekend-off flag is false or absent and on
\* exactly when it is true.
C11_StrictAlternation ==
    \A e \in AltEmployees :
        /\ \A k \in Pairs(e) : PairOff(e, k) \/ PairOn(e, k)
        /\ \A k \in Pairs(e) : (k + 1 \in Pairs(e)) => (PairOff(e, k) # PairOff(e, k + 1))
        /\ 0 \in Pairs(e) => /\ PairOff(e, 0) <=> ~WeekendOffFlag(e)
                             /\ PairOn(e, 0) <=> WeekendOffFlag(e)

\* Two consecutive pairs are decided, the first of them on after a weekend
\* off.
C11_Witness ==
    \E e \in AltEmployees :
        /\ WeekendOffFlag(e)
        /\ {0, 1} \subseteq Pairs(e)
        /\ PairOn(e, 0)
        /\ PairOff(e, 1)

\* The "on" pairs of employee e: those that the offset makes odd.
OnPairs(e) == {k \in Pairs(e) : (k + weekend_offsets(Emp(e))) % 2 = 1}

\* C12: on every "on" weekend pair the alternating employee works both
\* boundary days, that is, has E, M or L on each of them.
C12_OnWeekendWorked ==
    (pc = "done" /\ status = "FEASIBLE") =>
        \A e \in AltEmployees :
            \A k \in OnPairs(e) :
                /\ Working(weekends[e][2 * k + 2])
                /\ Working(weekends[e][2 * k + 3])

\* An "on" pair is decided in a schedule that the solver reports.
C12_Witness ==
    /\ pc = "done"
    /\ status = "FEASIBLE"
    /\ \E e \in AltEmployees : OnPairs(e) # {}

\* The alternating employees whose last rota ended with a weekend "off".
CarriedOff == {e \in AltEmployees : Get(cfg.alt_last, Emp(e), "None") = "off"}

\* C13: in the first script an alternating employee whose carry-over is
\* "off" gets a schedule, and in it the weekend at the boundary of the weeks
\* 0 and 1 is worked: neither day is a Day Off.
C13_WorkingWeekendAfterOff ==
    (pc = "done" /\ CarriedOff # {}) =>
        /\ status = "FEASIBLE"
        /\ \A e \in CarriedOff : 0 \in Pairs(e) /\ PairOn(e, 0)

\* C14: over two successive periods of the third script, the second seeded
\* by load_last_rota from the rota of the first, the weekend pairs of an
\* alternating employee go on alternating, the pair that straddles the two
\* periods included: every pair is all off or all on and of two consecutive
\* pairs exactly one is off.
C14_AlternationAcrossPeriods ==
    \A e \in AltEmployees :
        \A k \in Pairs(e) :
            /\ PairOff(e, k) \/ PairOn(e, k)
            /\ (k + 1 \in Pairs(e)) => (PairOff(e, k) # PairOff(e, k + 1))

\* The second period is scheduled: the pair that straddles the periods and
\* the first pair of the second period are decided.
C14_Witness ==
    /\ cfg.runs = 1
    /\ pc = "done"
    /\ status = "FEASIBLE"
    /\ \E e \in AltEmployees : Len(weekends[e]) = 4 * MaxWeeks

(***************************************************************************)
(* The objective.                                                          *)
(***************************************************************************)
\* No employee has a weekend term or a slack: the objective is the total of
\* the preference terms.
PreferenceTermsOnly ==
    /\ Installed("add_objective")
    /\ \A e \in 1 .. N : Emp(e) \in cfg.alt /\ ~HasQuota(e)

\* C15: the largest total that the preference terms can reach over the
\* horizon is strictly less than a single weekend-off bonus.
C15_PreferencesBelowWeekendBonus ==
    PreferenceTermsOnly => objective < weekend_bonus_partial

\* Nobody has a preference.
NoPreferences == cfg.pref_late = {} /\ cfg.pref_early = {} /\ cfg.pref_middle = {}

\* The Reserves with a "Working Days" cap.
CappedReserves == {e \in 1 .. N : Emp(e) \in cfg.stepup /\ HasQuota(e)}

\* One week is scheduled in which the objective has no terms but those of
\* the capped Reserves.
ReserveTermsOnly ==
    /\ pc = "done"
    /\ status = "FEASIBLE"
    /\ Installed("add_objective")
    /\ num_weeks = 1
    /\ NoPreferences
    /\ \A e \in 1 .. N : Emp(e) \in cfg.alt /\ (HasQuota(e) => e \in CappedReserves)

\* The objective of such a schedule when the Reserve r does not work at all.
ReserveOffObjective(r) == - SLACK_WEIGHT * cfg.working_days[Emp(r)]

\* C17: each working day of a Reserve with a cap is a cost: of two schedules
\* that differ only in the Reserve working one more day in the second, the
\* second has the strictly lower objective, so that a schedule in which the
\* Reserve works n days lies at least n below the one in which it is off.
C17_ReserveDayIsCost ==
    ReserveTermsOnly =>
        \A r \in CappedReserves :
            (CappedReserves = {r}) => objective <= ReserveOffObjective(r) - week_work[r]

\* The schedule in which the capped Reserve does not work.
C17_Witness ==
    /\ ReserveTermsOnly
    /\ \E r \in CappedReserves :
          /\ CappedReserves = {r}
          /\ week_work[r] = 0
          /\ objective = ReserveOffObjective(r)

\* The weekend bonus of employee e for the week that the row x completes.
WeekendBonus(e) ==
    LET sat_off == x[e] = shift_to_int["D/O"]
    IN  IF sat_off /\ sun_off[e] THEN weekend_bonus_full
        ELSE IF sat_off \/ sun_off[e] THEN weekend_bonus_partial
        ELSE 0

RECURSIVE SumWeekendBonus(_)
SumWeekendBonus(S) ==
    IF S = {} THEN 0
    ELSE LET e == CHOOSE i \in S : TRUE
         IN  WeekendBonus(e) + SumWeekendBonus(S \ {e})

\* C18: the weekend bonus of a week goes to exactly the Leads who are not on
\* the alternating pattern, 5000 for Sunday and Saturday both Day Off, 2500
\* for exactly one of them and 0 otherwise; Reserves and alternating
\* employees contribute no weekend term.
C18_WeekendBonusOfLeads ==
    (/\ pc = "done"
     /\ status = "FEASIBLE"
     /\ Installed("add_objective")
     /\ num_weeks = 1
     /\ NoPreferences
     /\ \A e \in 1 .. N : ~HasQuota(e))
        => objective = SumWeekendBonus({e \in Leads : Emp(e) \notin cfg.alt})

\* A Reserve who is not alternating has a weekend day off in a schedule
\* whose objective has weekend terms only.
C18_Witness ==
    /\ pc = "done"
    /\ status = "FEASIBLE"
    /\ Installed("add_objective")
    /\ NoPreferences
    /\ \A e \in 1 .. N : ~HasQuota(e)
    /\ \E e \in 1 .. N :
          /\ Emp(e) \in cfg.stepup \ cfg.alt
          /\ WeekendBonus(e) > 0

RECURSIVE SumSlack(_)
SumSlack(S) ==
    IF S = {} THEN 0
    ELSE LET e == CHOOSE i \in S : TRUE
         IN  slack[e] + SumSlack(S \ {e})

\* The total slack of a schedule of one week that the solver reports.
TotalSlack == SumSlack({e \in 1 .. N : HasQuota(e)})

Reported ==
    /\ pc = "done"
    /\ status = "FEASIBLE"
    /\ Installed("add_objective")
    /\ num_weeks = 1

\* The rules of DominanceScenario admit a schedule without slack, and every
\* schedule without slack has L2 on Late all week, hence the objective 0.
SlackFreeObjective == (Reported /\ TotalSlack = 0) => objective = 0

\* C16: the slack penalty dominates: a schedule that maximises the objective
\* has the smallest total slack that a feasible schedule can have.  Where a
\* schedule without slack exists and the schedules without slack have the
\* objective 0, no schedule with slack has an objective above 0.
C16_SlackIsLastResort ==
    (Reported /\ TotalSlack > 0) => objective <= 0

\* A schedule without slack is reported.
C16_Witness == Reported /\ TotalSlack = 0 /\ objective = 0

(***************************************************************************)
(* Consecutive working days in the third script.  is_work[e] holds the     *)
(* working indicators of the latest seven days of employee e.              *)
(***************************************************************************)
\* The days of employee e that are decided.
DaysDecided(e) == w * days_per_week + d + (IF e \in Fixed THEN 1 ELSE 0)

\* The carried-in count of employee e.
CarriedIn(e) == Get(cfg.previous_state, Emp(e), NoState).consecutive

\* The length of the run of working days that flags starts with.
RECURSIVE LeadingRun(_)
LeadingRun(flags) ==
    IF flags = << >> \/ ~Head(flags) THEN 0 ELSE 1 + LeadingRun(Tail(flags))

\* C19: in the third script every run of working days is at most 6 long,
\* the carried-in count plus the length of a run that starts on day 0 (the
\* employee works on day 0) is at most 6, and an employee whose carried-in
\* count is 6 or more does not work on day 0.
C19_ConsecutiveWithCarryIn ==
    (pc \in {"search", "done"} /\ Installed("add_consecutive_working_constraints")) =>
        \A e \in 1 .. N :
            /\ Len(is_work[e]) = 7 => \E i \in 1 .. 7 : ~is_work[e][i]
            /\ (DaysDecided(e) \in 1 .. 7)
                  => /\ is_work[e][1] => CarriedIn(e) + LeadingRun(is_work[e]) <= 6
                     /\ CarriedIn(e) >= 6 => ~is_work[e][1]

\* An employee who comes in with MaxPrev working days works from day 0 on
\* for as long as the limit allows and is off on the day after.
C19_Witness ==
    /\ Installed("add_consecutive_working_constraints")
    /\ \E e \in 1 .. N :
          /\ CarriedIn(e) = MaxPrev
          /\ DaysDecided(e) = 7
          /\ LeadingRun(is_work[e]) = 6 - MaxPrev

(***************************************************************************)
(* What a run surfaces.                                                    *)
(***************************************************************************)
\* The statuses of the solver behind the four results Optimal, Feasible,
\* Infeasible and TimedOut (no solution within the time limit).
Outcomes == {"OPTIMAL", "FEASIBLE", "INFEASIBLE", "UNKNOWN"}

\* C20: the outcome of the solver is surfaced as one of four results that
\* the caller can tell apart, and the rota file is written only for Optimal
\* and Feasible.
C20_OutcomesDistinguishable ==
    pc = "done" =>
        /\ output = surface(status)
        /\ output.file <=> status \in {"OPTIMAL", "FEASIBLE"}
        /\ \A other \in Outcomes \ {status} : surface(other) # output

\* A run ends without a solution and writes no file.
C20_Witness ==
    /\ pc = "done"
    /\ status = "INFEASIBLE"
    /\ ~output.file
    /\ output.printed = "No solution found."

(***************************************************************************)
(* Rules that refer to what does not exist.                                *)
(***************************************************************************)
\* The employees that the rules of cfg name.
ReferencedNames ==
    DOMAIN cfg.wont_work \cup cfg.alt
        \cup cfg.will_early \cup cfg.will_middle \cup cfg.will_late
        \cup cfg.pref_early \cup cfg.pref_middle \cup cfg.pref_late

\* A rule names an unknown employee or an unknown day.
UnknownReference ==
    \/ \E emp \in ReferencedNames : emp \notin EmployeeNames
    \/ \E emp \in DOMAIN cfg.wont_work : cfg.wont_work[emp] \notin DOMAIN day_name_to_index

\* C21: a rule that refers to an unknown employee or to an unknown day makes
\* the build fail: the model is never handed to the solver and the run never
\* yields a schedule.
C21_UnknownReferenceFails ==
    UnknownReference => pc \in {"build", "failed"}

\* The build fails on an unknown day name.
C21_Witness ==
    /\ UnknownReference
    /\ pc = "failed"

(***************************************************************************)
(* The rota that a run writes, read back by the run that follows.          *)
(***************************************************************************)
\* The working days (Early, Middle or Late) that end the week.
RECURSIVE TrailingWork(_)
TrailingWork(week) ==
    IF week = << >> \/ ~Working(week[Len(week)]) THEN 0
    ELSE 1 + TrailingWork(SubSeq(week, 1, Len(week) - 1))

\* The step in which the script is started again on the rota just written.
ReadsBack == pc = "done" /\ pc' = "build"

\* C22: parse_last_week_consecutive_days, applied to the file that
\* write_output_csv has written, returns for every employee the number of
\* consecutive working days that end the last week of the schedule; a Day
\* Off, a blank cell or a Holiday ends the run.
C22_ConsecutiveRoundTrip ==
    [][ReadsBack =>
          \A e \in 1 .. N :
              cfg'.prev_consecutive[Emp(e)] = TrailingWork(last_block[e])]_vars

\* The second run has read a rota whose last week ends with working days.
C22_Witness ==
    /\ cfg.runs = 1
    /\ pc = "build"
    /\ \E e \in 1 .. N : Get(cfg.prev_consecutive, Emp(e), 0) = MaxPrev

(***************************************************************************)
(* Rota Creation Script Refactor.py and the Rota Creation Script.          *)
(***************************************************************************)
\* C23: with the Late-to-Early constraints of Rota Creation Script
\* Refactor.py and of the Rota Creation Script installed, no employee is
\* Late on a day and Early on the day after it, inside a week as well as
\* from the last day of a week to the first day of the next.
C23_NoLateToEarlyAnyAdjacentDays ==
    (Installed("add_week_boundary_constraints") /\ prev # << >>)
        => \A e \in Fixed :
              ~(prev[e] = shift_to_int["L"] /\ x[e] = shift_to_int["E"])

\* An employee was Late on the last day of a week and has a value on the
\* first day of the next.
C23_Witness ==
    /\ Installed("add_week_boundary_constraints")
    /\ w >= 1 /\ d = 0
    /\ prev # << >>
    /\ \E e \in Fixed : prev[e] = shift_to_int["L"] /\ x[e] # shift_to_int["E"]

\* C24: with add_allowed_shifts of Rota Creation Script Refactor.py
\* installed, an employee outside the eligibility list of a working shift is
\* never assigned it; an employee in none of the three lists is never Early,
\* Middle or Late.
C24_RefactorEligibility ==
    Installed("refactor_add_allowed_shifts")
        => \A e \in Fixed :
              /\ x[e] = shift_to_int["E"] => Emp(e) \in cfg.will_early
              /\ x[e] = shift_to_int["M"] => Emp(e) \in cfg.will_middle
              /\ x[e] = shift_to_int["L"] => Emp(e) \in cfg.will_late

\* The employee of the Early list alone is Early and the row is complete.
C24_Witness ==
    /\ Installed("refactor_add_allowed_shifts")
    /\ cfg.will_middle = {}
    /\ RowComplete
    /\ x[1] = shift_to_int["E"]

(***************************************************************************)
(* The carried-in count and the windows after the start of the period.     *)
(***************************************************************************)
\* Employee e has had a non-working day and five working days after it, the
\* last of them the day before (w, d).
FiveAfterOff(e) ==
    LET run == LastOf(is_work[e], max_consecutive)
    IN  /\ Len(run) = max_consecutive
        /\ ~run[1]
        /\ \A i \in 2 .. max_consecutive : run[i]

\* C25: add_consecutive_day_limit_with_offset adds the carried-in count only
\* to the windows that touch the start of the period, so whatever the
\* carried-in count, an employee whose last five days after a non-working
\* day were working days can be given a sixth working day in a row.
C25_RunOfSixAfterDayOff ==
    ( /\ Installed("add_consecutive_day_limit_with_offset")
      /\ pc = "search"
      /\ Len(x) < N
      /\ FiveAfterOff(Len(x) + 1) )
        => ValueOK(shift_to_int["E"])

\* An employee with a carried-in count of 1 or more is about to be assigned
\* the day after a non-working day and five working days.
C25_Witness ==
    /\ Installed("add_consecutive_day_limit_with_offset")
    /\ pc = "search"
    /\ Len(x) < N
    /\ FiveAfterOff(Len(x) + 1)
    /\ Get(cfg.prev_consecutive, Emp(Len(x) + 1), 0) >= 1

(***************************************************************************)
(* The six-in-a-row penalty of the Rota Creation Script.                   *)
(***************************************************************************)
RECURSIVE SumSixInARow(_)
SumSixInARow(S) ==
    IF S = {} THEN 0
    ELSE LET e == CHOOSE i \in S : TRUE
         IN  SumFlags(six_in_a_row[e]) + SumSixInARow(S \ {e})

\* six_in_a_row_count: the number of six-in-a-row blocks of the schedule.
six_in_a_row_count == SumSixInARow(1 .. N)

\* The preference terms of the Rota Creation Script: one for each day of
\* Jennifer and of Stacey.
CreationPrefTerms == creation_num_weeks * days_per_week * Cardinality({"Jennifer", "Stacey"})

\* C26: in the Rota Creation Script six_in_a_row[i, e] is true exactly when
\* employee e works all of days i .. i+5, and the objective of a schedule
\* lies in [-1000 * blocks, -1000 * blocks + 1000), blocks being its
\* number of six-in-a-row blocks, because all preference terms together stay
\* below one penalty: of two schedules the one with fewer blocks has the
\* higher objective, so a maximising schedule has the smallest number of
\* blocks.
C26_SixInARowIsLastResort ==
    Installed("add_consecutive_day_constraints")
        => /\ \A e \in 1 .. N :
                 six_in_a_row[e] # << >>
                     => six_in_a_row[e][Len(six_in_a_row[e])]
                            = (\A k \in DOMAIN LastOf(is_work[e], 6) :
                                   LastOf(is_work[e], 6)[k])
           /\ Installed("creation_script_objective")
                 => /\ objective >= - BIG_PENALTY * six_in_a_row_count
                    /\ objective < - BIG_PENALTY * six_in_a_row_count + BIG_PENALTY
           /\ CreationPrefTerms < BIG_PENALTY

\* A reported schedule with a six-in-a-row block and a preferred shift.
C26_Witness ==
    /\ Installed("creation_script_objective")
    /\ pc = "done"
    /\ status = "FEASIBLE"
    /\ six_in_a_row_count >= 1
    /\ objective > - BIG_PENALTY * six_in_a_row_count

(***************************************************************************)
(* The rota of the third script, read back by load_last_rota.              *)
(***************************************************************************)
\* The facts of the last week of employee e in the schedule that the run
\* reports.
LastWeekFacts(e) ==
    [consecutive |-> TrailingWork(last_block[e]),
     weekend_off |-> /\ last_block[e][1] = shift_to_int["D/O"]
                     /\ last_block[e][days_per_week] = shift_to_int["D/O"]]

\* C27: for every employee, Lead or Reserve, the state that load_last_rota
\* reads from the file that write_output_csv has written is that of the last
\* week of the schedule: consecutive is the length of the run of Early,
\* Middle and Late days that ends the week, and weekend_off holds exactly
\* when the first and the last day of the week are both Day Off.
C27_StateRoundTrip ==
    [][ReadsBack =>
          \A e \in 1 .. N : cfg'.previous_state[Emp(e)] = LastWeekFacts(e)]_vars

\* The second run has read a last week with both weekend days off.
C27_Witness ==
    /\ cfg.runs = 1
    /\ pc = "build"
    /\ \E e \in 1 .. N : Get(cfg.previous_state, Emp(e), NoState).weekend_off

(***************************************************************************)
(* The carried weekend state and the strict alternation (first script).    *)
(***************************************************************************)
\* The last day of week 0 and the first day of week 1.
BoundaryDays == {<<0, days_per_week - 1>>, <<1, 0>>}

\* C28: whatever the carried weekend state of an alternating employee ("off",
\* "on" or none), some value satisfies both what apply_alternating_offset
\* and what enforce_strict_alternating_weekends install on the last day of
\* week 0 and on the first day of week 1, and the model is not infeasible.
C28_CarryOverSatisfiable ==
    ( /\ Installed("apply_alternating_offset")
      /\ Installed("enforce_strict_alternating_weekends") )
        => /\ \A e \in AltEmployees, day \in BoundaryDays :
                 \E v \in initialize_model :
                     /\ apply_alternating_offset(Emp(e), day[1], day[2], v)
                     /\ enforce_strict_alternating_weekends(Emp(e), day[1], day[2], v)
           /\ status # "INFEASIBLE"

\* A schedule is reported for an employee with a carried weekend state.
C28_Witness ==
    /\ Installed("apply_alternating_offset")
    /\ Installed("enforce_strict_alternating_weekends")
    /\ \E e \in AltEmployees : Emp(e) \in DOMAIN cfg.alt_last
    /\ pc = "done"
    /\ status = "FEASIBLE"

(***************************************************************************)
(* Leads that share a shift (first script).                                *)
(***************************************************************************)
\* The first employee of the row, a Lead, has a working shift, and the
\* second, a Lead as well, is about to be assigned.
SecondLeadNext ==
    /\ Installed("add_stepup_priority")
    /\ pc = "search"
    /\ Len(x) = 1
    /\ N >= 2
    /\ Emp(1) \notin cfg.stepup
    /\ Emp(2) \notin cfg.stepup
    /\ Working(x[1])

\* C29: add_stepup_priority does not limit how many Leads share a slot: when
\* a Lead has a working shift on a day, a second Lead can be assigned the
\* same shift on that day.
C29_LeadsMayShareAShift == SecondLeadNext => ValueOK(x[1])

\* A Lead is Early and the next Lead of the row is about to be assigned.
C29_Witness == SecondLeadNext /\ x[1] = shift_to_int["E"]

(***************************************************************************)
(* Holiday as a value of a slot (first and third script).                  *)
(***************************************************************************)
\* C30: an employee is on Holiday on a day only if an active holiday of that
\* employee's temporary rules covers the date of the day; without one the
\* non-working value of the slot is Day Off.
C30_HolidayOnlyByOverride ==
    \A e \in Fixed :
        x[e] = shift_to_int["H"] => HolidayCovers(Emp(e), current_date(w, d))

\* An employee is on Holiday on a day that an active holiday covers.
C30_Witness ==
    /\ Installed("add_temporary_constraints")
    /\ \E e \in Fixed :
          /\ x[e] = shift_to_int["H"]
          /\ HolidayCovers(Emp(e), current_date(w, d))
====
